---------------------------- MODULE Spec2Model ----------------------------
(***************************************************************************)
(* A model of the Robocopy log parser (src/src/robocopy.rs).               *)
(*                                                                         *)
(* Text is a sequence of characters, each character a one-character        *)
(* string; U00A0 stands for the no-break space, a character that is        *)
(* Unicode white space but not ASCII white space.  An unsigned 128-bit     *)
(* integer is kept as its canonical decimal digit sequence, so that the    *)
(* overflow of u128 parsing is decided exactly.                            *)
(***************************************************************************)
EXTENDS Integers, Sequences, FiniteSets, TLC

VARIABLES
    pc,         \* position of the modelled routine
    section,    \* read_file: the section counter
    result,     \* read_file: robocopy_result
    line,       \* read_file: the item the line iterator yielded last
    warned,     \* read_file: whether the last item ended in a warn!
    dividers,   \* history: number of dash-only lines consumed
    content,    \* history: number of items consumed that were not dividers
    lastRaw,    \* history: per field, the value text of the last dispatched occurrence
    lastOkRaw,  \* history: per field, the value text of the last occurrence that converted
    failSeen,   \* history: fields for which some dispatched occurrence failed to convert
    repeated,   \* history: fields whose key was dispatched more than once
    arg,        \* pure-function specifications: the input
    start,      \* pure-function specifications: the record and section before the call
    out,        \* pure-function specifications: the function's return value
    after,      \* pure-function specifications: read_file's state after the line
    overwrite,  \* write_to_file: the overwrite argument
    file,       \* write_to_file: the destination path in the file system
    old,        \* history: the destination path before the call
    written     \* write_to_file: number of characters of the document written

vars == <<pc, section, result, line, warned, dividers, content, lastRaw, lastOkRaw,
          failSeen, repeated, arg, start, out, after, overwrite, file, old, written>>

parseVars ==
    <<section, result, line, warned, dividers, content, lastRaw, lastOkRaw, failSeen, repeated>>
pureVars == <<arg, start, out, after>>
writeVars == <<overwrite, file, old, written>>

(***************************************************************************)
(* Option and Result values.                                               *)
(***************************************************************************)
None == <<>>
Some(x) == <<x>>
Ok(v) == [ok |-> TRUE, v |-> v]
Err(e) == [ok |-> FALSE, e |-> e]

SetMin(S) == CHOOSE x \in S : \A y \in S : x <= y

(***************************************************************************)
(* Characters.                                                             *)
(***************************************************************************)
U00A0 == "U+00A0"

\* char::is_whitespace, the test str::trim applies
IsWhiteSpace(c) == c \in {" ", "\t", U00A0}

\* u8::is_ascii_whitespace, the test split_ascii_whitespace applies
IsAsciiWhitespace(c) == c \in {" ", "\t"}

UpperAlpha == <<"A","B","C","D","E","F","G","H","I","J","K","L","M","N","O","P","Q","R","S","T","U","V","W","X","Y","Z">>
LowerAlpha == <<"a","b","c","d","e","f","g","h","i","j","k","l","m","n","o","p","q","r","s","t","u","v","w","x","y","z">>
Digits == <<"0","1","2","3","4","5","6","7","8","9">>

IsDigit(c) == \E i \in 1..10 : Digits[i] = c
DigitVal(c) == (CHOOSE i \in 1..10 : Digits[i] = c) - 1

to_ascii_lowercase(c) ==
    IF \E i \in 1..26 : UpperAlpha[i] = c
    THEN LowerAlpha[CHOOSE i \in 1..26 : UpperAlpha[i] = c]
    ELSE c

\* str::eq_ignore_ascii_case
eq_ignore_ascii_case(a, b) ==
    /\ Len(a) = Len(b)
    /\ \A i \in 1..Len(a) : to_ascii_lowercase(a[i]) = to_ascii_lowercase(b[i])

(***************************************************************************)
(* The str methods the parser calls.                                       *)
(***************************************************************************)
\* the first index from i on, and the last index up to i, that holds no white space
RECURSIVE SkipForward(_, _)
SkipForward(s, i) ==
    IF i > Len(s) \/ ~IsWhiteSpace(s[i]) THEN i ELSE SkipForward(s, i + 1)

RECURSIVE SkipBackward(_, _)
SkipBackward(s, i) ==
    IF i < 1 \/ ~IsWhiteSpace(s[i]) THEN i ELSE SkipBackward(s, i - 1)

\* str::trim
trim(s) == SubSeq(s, SkipForward(s, 1), SkipBackward(s, Len(s)))

\* str::trim_start_matches(c)
trim_start_matches(s, c) ==
    LET other == {i \in 1..Len(s) : s[i] # c}
    IN  IF other = {} THEN <<>> ELSE SubSeq(s, SetMin(other), Len(s))

\* a mutant of split_once: splits at the last occurrence (rsplit_once)
split_once_last(s, c) ==
    LET at == {i \in 1..Len(s) : s[i] = c}
        last == CHOOSE i \in at : \A j \in at : j <= i
    IN  IF at = {} THEN None
        ELSE Some(<<SubSeq(s, 1, last - 1), SubSeq(s, last + 1, Len(s))>>)

\* str::split_once(c): the text before and after the first occurrence of c
split_once(s, c) ==
    LET at == {i \in 1..Len(s) : s[i] = c}
    IN  IF at = {} THEN None
        ELSE Some(<<SubSeq(s, 1, SetMin(at) - 1), SubSeq(s, SetMin(at) + 1, Len(s))>>)

\* str::split_ascii_whitespace, collected
RECURSIVE split_ascii_whitespace(_)
split_ascii_whitespace(s) ==
    LET non == {i \in 1..Len(s) : ~IsAsciiWhitespace(s[i])}
    IN  IF non = {} THEN <<>>
        ELSE LET b == SetMin(non)
                 ws == {i \in b..Len(s) : IsAsciiWhitespace(s[i])}
                 e == IF ws = {} THEN Len(s) + 1 ELSE SetMin(ws)
             IN  <<SubSeq(s, b, e - 1)>> \o split_ascii_whitespace(SubSeq(s, e, Len(s)))

(***************************************************************************)
(* str::parse::<u128>: an optional "+", then one or more decimal digits,   *)
(* and a value of at most 2^128 - 1.                                       *)
(***************************************************************************)
U128Max == <<"3","4","0","2","8","2","3","6","6","9","2","0","9","3","8","4","6","3","4","6","3","3","7","4","6","0","7","4","3","1","7","6","8","2","1","1","4","5","5">>

Canonical(d) ==
    LET nz == {i \in 1..Len(d) : d[i] # "0"}
    IN  IF nz = {} THEN <<"0">> ELSE SubSeq(d, SetMin(nz), Len(d))

ExceedsU128(d) ==
    \/ Len(d) > Len(U128Max)
    \/ /\ Len(d) = Len(U128Max)
       /\ \E i \in 1..Len(d) :
            /\ DigitVal(d[i]) > DigitVal(U128Max[i])
            /\ \A j \in 1..(i - 1) : d[j] = U128Max[j]

parse_u128(s) ==
    IF s = <<>> THEN Err("Empty")
    ELSE LET d == IF s[1] = "+" THEN Tail(s) ELSE s
         IN  IF d = <<>> \/ \E i \in 1..Len(d) : ~IsDigit(d[i]) THEN Err("InvalidDigit")
             ELSE IF ExceedsU128(Canonical(d)) THEN Err("PosOverflow")
             ELSE Ok(Canonical(d))

(***************************************************************************)
(* Local.datetime_from_str(value, DATE_TIME_FORMAT) with                   *)
(* DATE_TIME_FORMAT = "%A, %B %e, %Y %r", as chrono's parser reads it:     *)
(* weekday name, ",", month name, day, ",", year, hour ":" minute ":"      *)
(* second, AM or PM.  A space of the format matches any run of white       *)
(* space, a number skips leading white space, names and AM/PM ignore       *)
(* ASCII case, nothing may follow, and the fields must name a real         *)
(* calendar day whose weekday is the one written.  The local time zone is  *)
(* taken to map every wall-clock time to exactly one instant.              *)
(***************************************************************************)
WeekdayNames ==
    <<<<"M","o","n","d","a","y">>, <<"T","u","e","s","d","a","y">>, <<"W","e","d","n","e","s","d","a","y">>, <<"T","h","u","r","s","d","a","y">>, <<"F","r","i","d","a","y">>, <<"S","a","t","u","r","d","a","y">>, <<"S","u","n","d","a","y">>>>

MonthNames ==
    <<<<"J","a","n","u","a","r","y">>, <<"F","e","b","r","u","a","r","y">>, <<"M","a","r","c","h">>, <<"A","p","r","i","l">>, <<"M","a","y">>, <<"J","u","n","e">>, <<"J","u","l","y">>,
      <<"A","u","g","u","s","t">>, <<"S","e","p","t","e","m","b","e","r">>, <<"O","c","t","o","b","e","r">>, <<"N","o","v","e","m","b","e","r">>, <<"D","e","c","e","m","b","e","r">>>>

RECURSIVE DigitsToInt(_)
DigitsToInt(d) ==
    IF d = <<>> THEN 0 ELSE 10 * DigitsToInt(SubSeq(d, 1, Len(d) - 1)) + DigitVal(d[Len(d)])

SkipWhiteSpace(s) == SubSeq(s, SkipForward(s, 1), Len(s))

Scanned(s) == [ok |-> TRUE, rest |-> s, f |-> <<>>]

\* the three-letter name, then the remainder of the long name when it follows
ScanName(st, names) ==
    IF ~st.ok THEN st
    ELSE LET s == st.rest
             hit == {i \in 1..Len(names) :
                        /\ Len(s) >= 3
                        /\ eq_ignore_ascii_case(SubSeq(s, 1, 3), SubSeq(names[i], 1, 3))}
         IN  IF hit = {} THEN [st EXCEPT !.ok = FALSE]
             ELSE LET i == CHOOSE i \in hit : TRUE
                      suffix == SubSeq(names[i], 4, Len(names[i]))
                      r == SubSeq(s, 4, Len(s))
                      long == /\ Len(r) >= Len(suffix)
                              /\ eq_ignore_ascii_case(SubSeq(r, 1, Len(suffix)), suffix)
                  IN  [ok |-> TRUE,
                       rest |-> IF long THEN SubSeq(r, Len(suffix) + 1, Len(r)) ELSE r,
                       f |-> Append(st.f, i)]

ScanLiteral(st, c) ==
    IF ~st.ok THEN st
    ELSE IF st.rest # <<>> /\ st.rest[1] = c THEN [st EXCEPT !.rest = Tail(st.rest)]
    ELSE [st EXCEPT !.ok = FALSE]

ScanSpace(st) ==
    IF ~st.ok THEN st ELSE [st EXCEPT !.rest = SkipWhiteSpace(st.rest)]

\* between one and max digits, after any white space
ScanNumber(st, max) ==
    IF ~st.ok THEN st
    ELSE LET s == SkipWhiteSpace(st.rest)
             non == {i \in 1..Len(s) : ~IsDigit(s[i])}
             run == IF non = {} THEN Len(s) ELSE SetMin(non) - 1
             n == IF run > max THEN max ELSE run
         IN  IF n = 0 THEN [st EXCEPT !.ok = FALSE]
             ELSE [ok |-> TRUE, rest |-> SubSeq(s, n + 1, Len(s)),
                   f |-> Append(st.f, DigitsToInt(SubSeq(s, 1, n)))]

ScanAmPm(st) ==
    IF ~st.ok THEN st
    ELSE IF Len(st.rest) < 2 THEN [st EXCEPT !.ok = FALSE]
    ELSE LET w == SubSeq(st.rest, 1, 2)
             r == SubSeq(st.rest, 3, Len(st.rest))
         IN  IF eq_ignore_ascii_case(w, <<"A","M">>)
             THEN [ok |-> TRUE, rest |-> r, f |-> Append(st.f, 0)]
             ELSE IF eq_ignore_ascii_case(w, <<"P","M">>)
             THEN [ok |-> TRUE, rest |-> r, f |-> Append(st.f, 1)]
             ELSE [st EXCEPT !.ok = FALSE]

IsLeapYear(y) == (y % 4 = 0 /\ y % 100 # 0) \/ y % 400 = 0

DaysInMonth(y, m) ==
    IF m = 2 THEN (IF IsLeapYear(y) THEN 29 ELSE 28)
    ELSE IF m \in {4, 6, 9, 11} THEN 30 ELSE 31

\* 1 = Monday .. 7 = Sunday
WeekdayOf(y, m, d) ==
    LET t == <<0, 3, 2, 5, 0, 3, 5, 1, 4, 6, 2, 4>>
        yy == IF m < 3 THEN y - 1 ELSE y
        w == (yy + (yy \div 4) - (yy \div 100) + (yy \div 400) + t[m] + d) % 7
    IN  IF w = 0 THEN 7 ELSE w

\* the items of DATE_TIME_FORMAT, scanned from left to right
ParseDateTime(value) ==
    ScanAmPm(ScanSpace(ScanNumber(ScanLiteral(ScanNumber(ScanLiteral(ScanNumber(
        ScanSpace(ScanNumber(
            ScanSpace(ScanLiteral(ScanNumber(
                ScanSpace(ScanName(
                    ScanSpace(ScanLiteral(ScanName(Scanned(value), WeekdayNames), ",")),
                    MonthNames)),
                2), ",")),
            4)),
        2), ":"), 2), ":"), 2)))

\* the scanned fields <<weekday, month, day, year, hour, minute, second, pm>> as a date
\* and time of day
ToDateTime(p) ==
    IF ~p.ok THEN Err("Invalid")
    ELSE IF p.rest # <<>> THEN Err("TooLong")
    ELSE IF \/ p.f[3] < 1 \/ p.f[3] > DaysInMonth(p.f[4], p.f[2])
            \/ p.f[5] < 1 \/ p.f[5] > 12 \/ p.f[6] > 59 \/ p.f[7] > 60
    THEN Err("OutOfRange")
    ELSE IF WeekdayOf(p.f[4], p.f[2], p.f[3]) # p.f[1] THEN Err("Impossible")
    ELSE Ok([year |-> p.f[4], month |-> p.f[2], day |-> p.f[3],
             hour |-> (p.f[5] % 12) + 12 * p.f[8], minute |-> p.f[6], second |-> p.f[7]])

datetime_from_str(value) == ToDateTime(ParseDateTime(value))

(***************************************************************************)
(* split_key_value, parse_speed and parse_stats.                           *)
(***************************************************************************)
split_key_value(l) ==
    LET p == split_once(trim(l), ":")
    IN  IF p = None THEN None ELSE Some(<<trim(p[1][1]), trim(p[1][2])>>)

BytesPerSec == <<"B","y","t","e","s","/","s","e","c",".">>

\* Result::context: an error is wrapped in the message
Context(r, message) == IF r.ok THEN r ELSE Err(message)

\* a mutant of parse_speed: the unit is not compared
parse_speed_any_unit(value) ==
    LET p == split_once(value, " ")
    IN  IF p = None THEN Err("Unrecognized speed value")
        ELSE Context(parse_u128(p[1][1]), "Failed to parse speed value")

parse_speed(value) ==
    LET p == split_once(value, " ")
    IN  IF p = None THEN Err("Unrecognized speed value")
        ELSE IF eq_ignore_ascii_case(p[1][2], BytesPerSec)
        THEN Context(parse_u128(p[1][1]), "Failed to parse speed value")
        ELSE Err("Unexpected speed unit")

StatNames == <<"total", "copied", "skipped", "mismatch", "failed", "extras">>

\* the six parsed fields as a CopyStat, or the first error among them
CopyStat(p) ==
    IF \E i \in 1..6 : ~p[i].ok THEN p[SetMin({i \in 1..6 : ~p[i].ok})]
    ELSE Ok([total |-> p[1].v, copied |-> p[2].v, skipped |-> p[3].v,
             mismatch |-> p[4].v, failed |-> p[5].v, extras |-> p[6].v])

\* a mutant of parse_stats: the first six fields are read and further ones ignored
parse_stats_at_least(value) ==
    LET field_vec == split_ascii_whitespace(value)
        field_count == Len(field_vec)
    IN  IF field_count < 6 THEN Err("Unexpected number of fields")
        ELSE CopyStat([i \in 1..6 |-> parse_u128(field_vec[i])])

parse_stats(value) ==
    LET field_vec == split_ascii_whitespace(value)
        field_count == Len(field_vec)
    IN  IF field_count # 6 THEN Err("Unexpected number of fields")
        ELSE CopyStat([i \in 1..6 |-> parse_u128(field_vec[i])])

(***************************************************************************)
(* RobocopyResult and its parsers.  parse_header and parse_footer return   *)
(* the record after the call and whether the call ended in warn!.          *)
(***************************************************************************)
DefaultStats == [dirs |-> None, files |-> None, bytes |-> None]

DefaultResult ==
    [started |-> None, ended |-> None, source |-> None, destination |-> None,
     files |-> None, options |-> None, speed |-> None, stats |-> DefaultStats]

KeyStarted == <<"S","t","a","r","t","e","d">>
KeySource == <<"S","o","u","r","c","e">>
KeyDest == <<"D","e","s","t">>
KeyFiles == <<"F","i","l","e","s">>
KeyOptions == <<"O","p","t","i","o","n","s">>
KeyEnded == <<"E","n","d","e","d">>
KeySpeed == <<"S","p","e","e","d">>
KeyDirs == <<"D","i","r","s">>
KeyBytes == <<"B","y","t","e","s">>

Quiet(self) == [self |-> self, warned |-> FALSE]
Warn(self) == [self |-> self, warned |-> TRUE]

Fields ==
    {"started", "source", "destination", "files", "options",
     "ended", "speed", "dirs", "stat_files", "bytes"}

Get(self, f) ==
    CASE f = "started" -> self.started
      [] f = "source" -> self.source
      [] f = "destination" -> self.destination
      [] f = "files" -> self.files
      [] f = "options" -> self.options
      [] f = "ended" -> self.ended
      [] f = "speed" -> self.speed
      [] f = "dirs" -> self.stats.dirs
      [] f = "stat_files" -> self.stats.files
      [] f = "bytes" -> self.stats.bytes

Put(self, f, v) ==
    CASE f = "started" -> [self EXCEPT !.started = v]
      [] f = "source" -> [self EXCEPT !.source = v]
      [] f = "destination" -> [self EXCEPT !.destination = v]
      [] f = "files" -> [self EXCEPT !.files = v]
      [] f = "options" -> [self EXCEPT !.options = v]
      [] f = "ended" -> [self EXCEPT !.ended = v]
      [] f = "speed" -> [self EXCEPT !.speed = v]
      [] f = "dirs" -> [self EXCEPT !.stats.dirs = v]
      [] f = "stat_files" -> [self EXCEPT !.stats.files = v]
      [] f = "bytes" -> [self EXCEPT !.stats.bytes = v]

\* self.f = Some(r?): the assignment is made when r is Ok, else the closure returns the
\* error and the caller logs it
Assign(self, f, r) == IF r.ok THEN Quiet(Put(self, f, Some(r.v))) ELSE Warn(self)

\* a mutant of parse_header: a field that is already set is kept (first occurrence wins)
parse_header_keep_first(self, key, value) ==
    IF key = KeyStarted
    THEN (IF self.started = None THEN Assign(self, "started", datetime_from_str(value))
          ELSE Quiet(self))
    ELSE IF key = KeySource
    THEN (IF self.source = None THEN Assign(self, "source", Ok(value)) ELSE Quiet(self))
    ELSE IF key = KeyDest
    THEN (IF self.destination = None THEN Assign(self, "destination", Ok(value))
          ELSE Quiet(self))
    ELSE IF key = KeyFiles
    THEN (IF self.files = None THEN Assign(self, "files", Ok(value)) ELSE Quiet(self))
    ELSE IF key = KeyOptions
    THEN (IF self.options = None THEN Assign(self, "options", Ok(value)) ELSE Quiet(self))
    ELSE Warn(self)

parse_header(self, key, value) ==
    IF key = KeyStarted THEN Assign(self, "started", datetime_from_str(value))
    ELSE IF key = KeySource THEN Assign(self, "source", Ok(value))
    ELSE IF key = KeyDest THEN Assign(self, "destination", Ok(value))
    ELSE IF key = KeyFiles THEN Assign(self, "files", Ok(value))
    ELSE IF key = KeyOptions THEN Assign(self, "options", Ok(value))
    ELSE Warn(self)

\* a mutant of parse_footer: a speed that fails to convert is stored as zero
parse_footer_default_on_fail(self, key, value) ==
    IF key = KeyEnded THEN Assign(self, "ended", datetime_from_str(value))
    ELSE IF key = KeySpeed
    THEN (IF parse_speed(value).ok THEN Assign(self, "speed", parse_speed(value))
          ELSE Warn(Put(self, "speed", Some(<<"0">>))))
    ELSE IF key = KeyDirs THEN Assign(self, "dirs", parse_stats(value))
    ELSE IF key = KeyFiles THEN Assign(self, "stat_files", parse_stats(value))
    ELSE IF key = KeyBytes THEN Assign(self, "bytes", parse_stats(value))
    ELSE Warn(self)

\* a mutant of parse_footer: the field is cleared before its value is converted
parse_footer_clear_first(self, key, value) ==
    IF key = KeyEnded
    THEN Assign(Put(self, "ended", None), "ended", datetime_from_str(value))
    ELSE IF key = KeySpeed
    THEN Assign(Put(self, "speed", None), "speed", parse_speed(value))
    ELSE IF key = KeyDirs
    THEN Assign(Put(self, "dirs", None), "dirs", parse_stats(value))
    ELSE IF key = KeyFiles
    THEN Assign(Put(self, "stat_files", None), "stat_files", parse_stats(value))
    ELSE IF key = KeyBytes
    THEN Assign(Put(self, "bytes", None), "bytes", parse_stats(value))
    ELSE Warn(self)

parse_footer(self, key, value) ==
    IF key = KeyEnded THEN Assign(self, "ended", datetime_from_str(value))
    ELSE IF key = KeySpeed THEN Assign(self, "speed", parse_speed(value))
    ELSE IF key = KeyDirs
    THEN Assign(self, "dirs", Context(parse_stats(value), "Failed to parse dirs stats"))
    ELSE IF key = KeyFiles
    THEN Assign(self, "stat_files", Context(parse_stats(value), "Failed to parse files stats"))
    ELSE IF key = KeyBytes
    THEN Assign(self, "bytes", Context(parse_stats(value), "Failed to parse bytes stats"))
    ELSE Warn(self)

(***************************************************************************)
(* read_file: one turn of the loop over the lines.  An item of the line    *)
(* iterator is a line of text or a read error.                             *)
(***************************************************************************)
TextLine(t) == [ok |-> TRUE, text |-> t]
ReadError == [ok |-> FALSE, text |-> <<>>]

\* a mutant of is_divider: a line that merely starts with a dash
is_divider_starts_with(l) == l # <<>> /\ l[1] = "-"

\* line.trim_start_matches('-').is_empty(), applied to a non-empty trimmed line
is_divider(l) == trim_start_matches(l, "-") = <<>>

HeaderSection == 2
FooterSection == 4

\* a mutant of to_footer: every section after the header's goes to the footer parser
to_footer_from_three(sec) == sec > HeaderSection

to_header(sec) == sec = HeaderSection
to_footer(sec) == sec = FooterSection

\* the loop's variables after one turn, and whether the turn logged a warning
Turn(sec, r) == [section |-> sec, result |-> r.self, warned |-> r.warned]

\* if let Some((key, value)) = split_key_value(line) { parse_header(key, value) }
header_line(res, kv) ==
    IF kv = None THEN Quiet(res) ELSE parse_header(res, kv[1][1], kv[1][2])

\* if let Some((key, value)) = split_key_value(line) { parse_footer(key, value) }
footer_line(res, kv) ==
    IF kv = None THEN Quiet(res) ELSE parse_footer(res, kv[1][1], kv[1][2])

\* the loop's body from the trimmed line on
ProcessText(sec, res, l) ==
    IF l = <<>> THEN Turn(sec, Quiet(res))
    ELSE IF is_divider(l) THEN Turn(sec + 1, Quiet(res))
    ELSE IF to_header(sec) THEN Turn(sec, header_line(res, split_key_value(l)))
    ELSE IF to_footer(sec) THEN Turn(sec, footer_line(res, split_key_value(l)))
    ELSE Turn(sec, Quiet(res))

\* the loop's body: a line that cannot be read is logged and skipped
ProcessLine(sec, res, item) ==
    IF ~item.ok THEN Turn(sec, Warn(res)) ELSE ProcessText(sec, res, trim(item.text))

(***************************************************************************)
(* The inputs: the items the line iterator may yield.                      *)
(***************************************************************************)
GoodStarted == <<"M","o","n","d","a","y",","," ","J","a","n","u","a","r","y"," "," ","1",","," ","2","0","2","4"," ","1","2",":","0","0",":","0","0"," ","A","M">>
GoodEnded == <<"M","o","n","d","a","y",","," ","J","a","n","u","a","r","y"," "," ","1",","," ","2","0","2","4"," ","1","2",":","0","0",":","0","5"," ","P","M">>

HeaderLines ==
    { <<" "," ","S","t","a","r","t","e","d"," ",":"," ">> \o GoodStarted,
      <<" "," ","S","t","a","r","t","e","d"," ",":"," ","n","o","t","-","a","-","d","a","t","e">>,
      <<" "," "," ","S","o","u","r","c","e"," ",":"," ","C",":","\\","d","a","t","a","\\">>,
      <<" "," "," ","S","o","u","r","c","e"," ",":"," ","D",":","\\","s","r","c">>,
      <<" "," "," "," "," ","D","e","s","t"," ",":"," ","E",":","\\","b","a","c","k","u","p">>,
      <<" "," "," "," ","F","i","l","e","s"," ",":"," ","*",".","*">>,
      <<" "," ","O","p","t","i","o","n","s"," ",":"," ","*",".","*"," ","/","S"," ","/","R",":","1">> }

FooterLines ==
    { <<" "," "," ","E","n","d","e","d"," ",":"," ">> \o GoodEnded,
      <<" "," "," ","E","n","d","e","d"," ",":"," ","y","e","s","t","e","r","d","a","y">>,
      <<" "," "," ","S","p","e","e","d"," ",":"," ","1","2","3","4","5"," ","B","y","t","e","s","/","s","e","c",".">>,
      <<" "," "," ","S","p","e","e","d"," ",":"," ","7","7","7"," ","b","y","t","e","s","/","S","E","C",".">>,
      <<" "," "," ","S","p","e","e","d"," ",":"," ","1","2","3","4","5"," ","K","B","/","s","e","c",".">>,
      <<" "," "," "," ","D","i","r","s"," ",":"," "," ","3"," ","1"," ","2"," ","0"," ","0"," ","0">>,
      <<" "," "," "," ","D","i","r","s"," ",":"," "," ","3"," ","1"," ","2"," ","0"," ","0">>,
      <<" "," "," ","F","i","l","e","s"," ",":"," "," "," ","1","0"," "," "," "," ","8"," "," "," "," ","2"," "," "," "," ","0"," "," "," "," ","0"," "," "," "," ","0">>,
      <<" "," "," ","F","i","l","e","s"," ",":"," ","1","0"," ","8"," ","x"," ","0"," ","0"," ","0">>,
      <<" "," "," ","B","y","t","e","s"," ",":"," ","1"," ","2"," ","3"," ","4"," ","5"," ","6">> }

OtherLines ==
    { <<>>,
      <<" ","\t"," ">>,
      <<"-","-","-","-","-">>,
      <<" "," ","-","-","\t">>,
      <<"-","-"," ","R","O","B","O","C","O","P","Y"," ","-","-">>,
      <<"-","a"," ",":"," ","b">>,
      <<"1","0","0","%"," "," ","N","e","w"," ","F","i","l","e"," "," ","a",".","t","x","t">>,
      <<" "," "," ","T","i","m","e","s"," ",":"," "," "," ","0",":","0","0",":","0","5">> }

LineInputs == {ReadError} \cup {TextLine(t) : t \in HeaderLines \cup FooterLines \cup OtherLines}

MaxDividers == 5
MaxContent == 2

(***************************************************************************)
(* What a line is, read off the log's grammar: the history variables are   *)
(* kept with these, not with the parser's own tests.                       *)
(***************************************************************************)
IsDashLine(item) ==
    /\ item.ok
    /\ LET l == trim(item.text)
       IN  l # <<>> /\ \A i \in 1..Len(l) : l[i] = "-"

IsContentLine(item) == item.ok /\ trim(item.text) # <<>> /\ ~IsDashLine(item)

HasColon(t) == \E i \in 1..Len(t) : t[i] = ":"
FirstColon(t) == SetMin({i \in 1..Len(t) : t[i] = ":"})
KeyOf(t) == LET l == trim(t) IN trim(SubSeq(l, 1, FirstColon(l) - 1))
ValueOf(t) == LET l == trim(t) IN trim(SubSeq(l, FirstColon(l) + 1, Len(l)))

HeaderFields == {"started", "source", "destination", "files", "options"}
FooterFields == Fields \ HeaderFields

\* the field a key names in a section, "" when the key is not one of the section's
FieldOf(sec, key) ==
    IF sec = HeaderSection
    THEN (IF key = KeyStarted THEN "started"
          ELSE IF key = KeySource THEN "source"
          ELSE IF key = KeyDest THEN "destination"
          ELSE IF key = KeyFiles THEN "files"
          ELSE IF key = KeyOptions THEN "options"
          ELSE "")
    ELSE IF sec = FooterSection
    THEN (IF key = KeyEnded THEN "ended"
          ELSE IF key = KeySpeed THEN "speed"
          ELSE IF key = KeyDirs THEN "dirs"
          ELSE IF key = KeyFiles THEN "stat_files"
          ELSE IF key = KeyBytes THEN "bytes"
          ELSE "")
    ELSE ""

\* the conversion a field's value goes through
Convert(f, value) ==
    IF f \in {"started", "ended"} THEN datetime_from_str(value)
    ELSE IF f = "speed" THEN parse_speed(value)
    ELSE IF f \in {"dirs", "stat_files", "bytes"} THEN parse_stats(value)
    ELSE Ok(value)

\* the field an item of section sec is an occurrence of, "" when it is none
Occurrence(sec, item) ==
    IF IsContentLine(item) /\ HasColon(item.text) THEN FieldOf(sec, KeyOf(item.text)) ELSE ""

NoHistory == [f \in Fields |-> None]

(***************************************************************************)
(* read_file as a state machine.                                           *)
(***************************************************************************)
Idle == <<>>

PureIdle == arg = Idle /\ start = Idle /\ out = Idle /\ after = Idle
WriteIdle == overwrite = FALSE /\ file = Idle /\ old = Idle /\ written = 0

Init ==
    /\ pc = "open"
    /\ section = 0
    /\ result = DefaultResult
    /\ line = ReadError
    /\ warned = FALSE
    /\ dividers = 0
    /\ content = 0
    /\ lastRaw = NoHistory
    /\ lastOkRaw = NoHistory
    /\ failSeen = {}
    /\ repeated = {}
    /\ PureIdle
    /\ WriteIdle

\* File::open(path)? succeeds
OpenInput ==
    /\ pc = "open"
    /\ pc' = "reading"
    /\ UNCHANGED <<parseVars, pureVars, writeVars>>

\* File::open(path)? fails and read_file returns the error
OpenInputFails ==
    /\ pc = "open"
    /\ pc' = "failed"
    /\ UNCHANGED <<parseVars, pureVars, writeVars>>

\* one turn of the for loop on item, nx being the loop's variables after it
Advance(item, nx) ==
    /\ line' = item
    /\ section' = nx.section
    /\ result' = nx.result
    /\ warned' = nx.warned

\* the history of the turn: item is an occurrence of field f ("" when of none) with
\* the value text raw, which converts or not
Remember(item, f, raw, converts) ==
    /\ dividers' = IF IsDashLine(item) THEN dividers + 1 ELSE dividers
    /\ content' = IF IsDashLine(item) THEN content ELSE content + 1
    /\ lastRaw' = IF f = "" THEN lastRaw ELSE [lastRaw EXCEPT ![f] = Some(raw)]
    /\ lastOkRaw' = IF f = "" \/ ~converts THEN lastOkRaw
                    ELSE [lastOkRaw EXCEPT ![f] = Some(raw)]
    /\ failSeen' = IF f = "" \/ converts THEN failSeen ELSE failSeen \cup {f}
    /\ repeated' = IF f = "" \/ lastRaw[f] = None THEN repeated ELSE repeated \cup {f}

\* the iterator yields an item; the input holds at most MaxDividers dash lines and
\* MaxContent other items
ReadLine ==
    /\ pc = "reading"
    /\ \E item \in LineInputs :
         /\ IF IsDashLine(item) THEN dividers < MaxDividers ELSE content < MaxContent
         /\ Advance(item, ProcessLine(section, result, item))
         /\ \E f \in {Occurrence(section, item)} :
              Remember(item, f, ValueOf(item.text), Convert(f, ValueOf(item.text)).ok)
    /\ pc' = "reading"
    /\ UNCHANGED <<pureVars, writeVars>>

\* the iterator is exhausted: Ok(robocopy_result)
EndOfInput ==
    /\ pc = "reading"
    /\ pc' = "done"
    /\ UNCHANGED <<parseVars, pureVars, writeVars>>

Next == OpenInput \/ OpenInputFails \/ ReadLine \/ EndOfInput

Spec == Init /\ [][Next]_vars

(***************************************************************************)
(* Claims about read_file, checked under Spec.                             *)
(***************************************************************************)
StatsLineFiles == TextLine(<<" "," "," ","F","i","l","e","s"," ",":"," "," "," ","1","0"," "," "," "," ","8"," "," "," "," ","2"," "," "," "," ","0"," "," "," "," ","0"," "," "," "," ","0">>)
BadSpeedLine == TextLine(<<" "," "," ","S","p","e","e","d"," ",":"," ","1","2","3","4","5"," ","K","B","/","s","e","c",".">>)

\* C1: the section counter starts at 0, goes up by one on each line that is, once
\* trimmed, one or more dashes and nothing else, is left alone by every other item
\* (blank, content, unreadable), and so always equals the number of divider lines
\* consumed, at the end of the input too.
C1_SectionCountsDividers ==
    /\ section = dividers
    /\ section >= 0
    /\ (pc \in {"open", "failed"} => section = 0)

C1_Witness ==
    /\ pc = "done"
    /\ dividers = 3
    /\ content = MaxContent
    /\ line = TextLine(<<"-","-"," ","R","O","B","O","C","O","P","Y"," ","-","-">>)

\* the record's fields a header line may set, and those a footer line may set
HeaderPart(res) == <<res.started, res.source, res.destination, res.files, res.options>>
FooterPart(res) == <<res.ended, res.speed, res.stats>>

\* C2: an item changes the record only when it is a content line read while the
\* section counter is 2 or 4; in section 2 it changes at most started, source,
\* destination, files and options, in section 4 at most ended, speed and the
\* statistics; the key Files sets the pattern in section 2 and the files
\* statistics in section 4.
C2_OnlySections2And4Assign ==
    [][(pc = "reading" /\ pc' = "reading") =>
         /\ (section \notin {HeaderSection, FooterSection} => result' = result)
         /\ (~IsContentLine(line') => result' = result)
         /\ (section = HeaderSection => FooterPart(result') = FooterPart(result))
         /\ (section = FooterSection => HeaderPart(result') = HeaderPart(result))
         /\ (Occurrence(section, line') = "files" =>
               /\ section = HeaderSection
               /\ result'.files = Some(ValueOf(line'.text))
               /\ result'.stats.files = result.stats.files)
         /\ (Occurrence(section, line') = "stat_files" /\ line' = StatsLineFiles =>
               /\ section = FooterSection
               /\ result'.stats.files # None
               /\ result'.files = result.files)]_vars

C2_Witness ==
    /\ section = FooterSection
    /\ line = StatsLineFiles
    /\ result.stats.files # None
    /\ result.files = None
    /\ result.source # None

\* C3, as stated: read_file returns success for every sequence of lines, and a
\* field for which a conversion failed is absent in the returned record.
C3_FailedFieldAbsent ==
    /\ (pc = "failed" => dividers = 0 /\ content = 0)
    /\ (pc = "done" => \A f \in failSeen : Get(result, f) = None)

\* C3, amended: read_file returns success for every sequence of lines, and a
\* field for which a conversion failed is absent in the returned record unless
\* another occurrence of its key converted.
C3_FailedFieldAbsentUnlessConverted ==
    /\ (pc = "failed" => dividers = 0 /\ content = 0 /\ result = DefaultResult)
    /\ \A f \in failSeen : lastOkRaw[f] = None => Get(result, f) = None
    /\ \A f \in Fields : lastOkRaw[f] # None => Get(result, f) # None

C3_Witness ==
    /\ pc = "done"
    /\ failSeen = {"speed", "ended"}
    /\ lastOkRaw["speed"] = None
    /\ result.speed = None
    /\ result.ended = None

\* the record's value for a field whose last word was the value text raw
Determined(f, raw) ==
    IF raw = None THEN None
    ELSE LET r == Convert(f, raw[1]) IN IF r.ok THEN Some(r.v) ELSE None

\* C9, as stated: the value of a field is the one the last occurrence of its key
\* determines.
C9_LastOccurrenceWins ==
    \A f \in Fields : lastRaw[f] # None => Get(result, f) = Determined(f, lastRaw[f])

\* C9, amended: the value of a field is the one determined by the last
\* occurrence of its key whose value converted; for Source, Dest, Files (the
\* pattern) and Options, whose assignment is unconditional, that is the last
\* occurrence.
C9_LastConvertedOccurrenceWins ==
    /\ \A f \in Fields : Get(result, f) = Determined(f, lastOkRaw[f])
    /\ \A f \in {"source", "destination", "files", "options"} :
         lastRaw[f] # None => Get(result, f) = Some(lastRaw[f][1])

C9_Witness ==
    /\ pc = "done"
    /\ "source" \in repeated
    /\ result.source = Some(<<"D",":","\\","s","r","c">>)
    /\ line.ok
    /\ HasColon(line.text)
    /\ ValueOf(line.text) = <<"D",":","\\","s","r","c">>

\* C10: a parse_header or parse_footer call that ends in a warning (a key the
\* section does not know, or a value that fails to convert) leaves every field of
\* the record as it was, the field the key names included.
C10_WarningLeavesRecord ==
    [][(pc = "reading" /\ pc' = "reading") =>
         /\ (warned' => result' = result)
         /\ (/\ section \in {HeaderSection, FooterSection}
             /\ IsContentLine(line')
             /\ HasColon(line'.text)
             /\ \/ Occurrence(section, line') = ""
                \/ ~Convert(Occurrence(section, line'), ValueOf(line'.text)).ok
             => warned' /\ result' = result)]_vars

C10_Witness ==
    /\ warned
    /\ section = FooterSection
    /\ line = BadSpeedLine
    /\ "speed" \in failSeen
    /\ result.speed # None

(***************************************************************************)
(* The pure functions, each applied to inputs drawn from a bounded set,    *)
(* together with the turn of read_file's loop that reaches it.             *)
(***************************************************************************)
ParseIdle ==
    /\ section = 0
    /\ result = DefaultResult
    /\ line = ReadError
    /\ warned = FALSE
    /\ dividers = 0
    /\ content = 0
    /\ lastRaw = NoHistory
    /\ lastOkRaw = NoHistory
    /\ failSeen = {}
    /\ repeated = {}

\* a record in which every field is set
FullResult ==
    [started |-> Some(datetime_from_str(GoodStarted).v),
     ended |-> Some(datetime_from_str(GoodEnded).v),
     source |-> Some(<<"C",":","\\","d","a","t","a","\\">>),
     destination |-> Some(<<"E",":","\\","b","a","c","k","u","p">>),
     files |-> Some(<<"*",".","*">>),
     options |-> Some(<<"/","S">>),
     speed |-> Some(<<"5">>),
     stats |-> [dirs |-> Some(parse_stats(<<"1"," ","1"," ","0"," ","0"," ","0"," ","0">>).v),
                files |-> Some(parse_stats(<<"9"," ","9"," ","0"," ","0"," ","0"," ","0">>).v),
                bytes |-> Some(parse_stats(<<"4"," ","4"," ","0"," ","0"," ","0"," ","0">>).v)]]

StartStates ==
    {[section |-> s, result |-> r] : s \in {HeaderSection, FooterSection},
                                     r \in {DefaultResult, FullResult}}

U128MaxPlusOne == <<"3","4","0","2","8","2","3","6","6","9","2","0","9","3","8","4","6","3","4","6","3","3","7","4","6","0","7","4","3","1","7","6","8","2","1","1","4","5","6">>

\* ---- parse_speed ----
SpeedNumbers ==
    {<<>>, <<"0">>, <<"1","2","3","4","5">>, <<"0","0","7">>, <<"+","5">>, <<"-","5">>, <<"1",".","5">>, <<"1","2","a">>, <<"1"," ","2">>, U128Max, U128MaxPlusOne}
SpeedSeparators == {<<>>, <<" ">>, <<" "," ">>, <<"\t">>, <<U00A0>>}
SpeedUnits ==
    {<<"B","y","t","e","s","/","s","e","c",".">>, <<"b","y","t","e","s","/","S","E","C",".">>, <<"B","Y","T","E","S","/","S","E","C",".">>, <<"K","B","/","s","e","c",".">>, <<"B","y","t","e","s","/","s","e","c">>, <<"B","y","t","e","s","/","s","e","c","."," ">>, <<>>}

SpeedInputs ==
    {[num |-> n, sep |-> s, unit |-> u] :
        n \in SpeedNumbers, s \in SpeedSeparators, u \in SpeedUnits}

SpeedText(a) == a.num \o a.sep \o a.unit
SpeedLine(a) == TextLine(<<" "," "," ","S","p","e","e","d"," ",":"," ">> \o SpeedText(a))

InitSpeed ==
    /\ pc = "speed_call"
    /\ arg \in SpeedInputs
    /\ start \in {s \in StartStates : s.section = FooterSection}
    /\ out = Idle
    /\ after = Idle
    /\ ParseIdle
    /\ WriteIdle

\* the footer line "Speed : <value>": parse_speed on the value, and the turn of the loop
CallParseSpeed ==
    /\ pc = "speed_call"
    /\ pc' = "speed_returned"
    /\ out' = parse_speed(split_key_value(trim(SpeedLine(arg).text))[1][2])
    /\ after' = ProcessLine(start.section, start.result, SpeedLine(arg))
    /\ UNCHANGED <<arg, start, parseVars, writeVars>>

NextSpeed == CallParseSpeed

SpecSpeed == InitSpeed /\ [][NextSpeed]_vars

\* an optional "+", one or more decimal digits, a value below 2^128
IsUnsignedInteger(d) ==
    LET b == IF d # <<>> /\ d[1] = "+" THEN Tail(d) ELSE d
    IN  /\ b # <<>>
        /\ \A i \in 1..Len(b) : IsDigit(b[i])
        /\ ~ExceedsU128(Canonical(b))

UnsignedValue(d) == Canonical(IF d[1] = "+" THEN Tail(d) ELSE d)

IsBytesPerSec(u) == [i \in 1..Len(u) |-> to_ascii_lowercase(u[i])] = <<"b","y","t","e","s","/","s","e","c",".">>

\* the number and the unit of "<number> <unit>", cut at the first space
SpeedNumberOf(v) == SubSeq(v, 1, SetMin({i \in 1..Len(v) : v[i] = " "}) - 1)
SpeedUnitOf(v) == SubSeq(v, SetMin({i \in 1..Len(v) : v[i] = " "}) + 1, Len(v))

WellFormedSpeed(v) ==
    /\ \E i \in 1..Len(v) : v[i] = " "
    /\ IsBytesPerSec(SpeedUnitOf(v))
    /\ IsUnsignedInteger(SpeedNumberOf(v))

\* C6: parse_speed succeeds with n exactly when the trimmed value is
\* "<number> <unit>" cut at its first space, the unit is "Bytes/sec." up to ASCII
\* case and the number is an unsigned integer n; any other value (no space,
\* another unit, two separating spaces, a number that is not an unsigned integer)
\* fails, and the footer line then leaves speed and the rest of the record as they
\* were while the loop goes on.
C6_ParseSpeed ==
    pc = "speed_returned" =>
        LET v == trim(SpeedText(arg))
        IN  /\ out.ok <=> WellFormedSpeed(v)
            /\ out.ok => /\ out.v = UnsignedValue(SpeedNumberOf(v))
                         /\ after.result = [start.result EXCEPT !.speed = Some(out.v)]
                         /\ ~after.warned
            /\ ~out.ok => after.result = start.result /\ after.warned
            /\ after.section = start.section
            /\ (arg.sep # <<" ">> => ~out.ok)
            /\ (arg.unit \in {<<"K","B","/","s","e","c",".">>, <<"B","y","t","e","s","/","s","e","c">>, <<>>} => ~out.ok)
            /\ (arg.num \in {<<>>, <<"-","5">>, <<"1",".","5">>, <<"1","2","a">>, <<"1"," ","2">>, U128MaxPlusOne} => ~out.ok)

C6_Witness ==
    /\ pc = "speed_returned"
    /\ arg = [num |-> <<"1","2","3","4","5">>, sep |-> <<" ">>, unit |-> <<"K","B","/","s","e","c",".">>]
    /\ start.result = DefaultResult
    /\ ~out.ok
    /\ after.result.speed = None

\* ---- parse_stats ----
GoodTokens == <<<<"1","0">>, <<"8">>, <<"2">>, <<"0">>, <<"0">>, <<"0">>>>
SevenTokens == GoodTokens \o <<<<"9">>>>
OtherTokens == {<<"x">>, <<"-","1">>, <<"1",".","5">>, <<"1",",","0","0","0">>, U128MaxPlusOne, <<"+","7">>, <<"0","0","7">>, U128Max}

StatTokenLists ==
    {[GoodTokens EXCEPT ![i] = t] : i \in 1..6, t \in OtherTokens}
        \cup {SubSeq(SevenTokens, 1, k) : k \in 0..7}
StatSeparators == {<<" ">>, <<" "," "," "," "," ">>, <<"\t">>, <<" ","\t"," ">>, <<U00A0>>}
StatKeys == {KeyDirs, KeyFiles, KeyBytes}

StatInputs ==
    {[key |-> k, toks |-> t, sep |-> s] :
        k \in StatKeys, t \in StatTokenLists, s \in StatSeparators}

RECURSIVE Join(_, _)
Join(toks, sep) ==
    IF toks = <<>> THEN <<>>
    ELSE IF Len(toks) = 1 THEN toks[1]
    ELSE toks[1] \o sep \o Join(Tail(toks), sep)

StatText(a) == Join(a.toks, a.sep)
StatLine(a) == TextLine(<<" "," "," ">> \o a.key \o <<" ",":"," "," "," ">> \o StatText(a))

InitStats ==
    /\ pc = "stats_call"
    /\ arg \in StatInputs
    /\ start \in {s \in StartStates : s.section = FooterSection}
    /\ out = Idle
    /\ after = Idle
    /\ ParseIdle
    /\ WriteIdle

\* the footer line "<Dirs|Files|Bytes> : <value>": parse_stats on the value, and the turn
CallParseStats ==
    /\ pc = "stats_call"
    /\ pc' = "stats_returned"
    /\ out' = parse_stats(split_key_value(trim(StatLine(arg).text))[1][2])
    /\ after' = ProcessLine(start.section, start.result, StatLine(arg))
    /\ UNCHANGED <<arg, start, parseVars, writeVars>>

NextStats == CallParseStats

SpecStats == InitStats /\ [][NextStats]_vars

\* the tokens the value holds: those it was joined from when the separator is
\* ASCII white space, else the whole value as one token
TokensOf(a) ==
    IF \A i \in 1..Len(a.sep) : IsAsciiWhitespace(a.sep[i]) THEN a.toks
    ELSE IF a.toks = <<>> THEN <<>>
    ELSE <<StatText(a)>>

StatOf(res, key) ==
    IF key = KeyDirs THEN res.stats.dirs
    ELSE IF key = KeyFiles THEN res.stats.files
    ELSE res.stats.bytes

WithStat(res, key, st) ==
    IF key = KeyDirs THEN [res EXCEPT !.stats.dirs = st]
    ELSE IF key = KeyFiles THEN [res EXCEPT !.stats.files = st]
    ELSE [res EXCEPT !.stats.bytes = st]

\* C7: parse_stats yields a CopyStat only for a value of exactly six
\* whitespace-delimited tokens that are all unsigned integers, with the six
\* counters total, copied, skipped, mismatch, failed, extras taken from the tokens
\* in that order; any other token count or a token that is no unsigned integer
\* yields none, and stats.dirs, stats.files and stats.bytes are then what they
\* were: unset, or the full CopyStat of one earlier line.
C7_ParseStats ==
    pc = "stats_returned" =>
        LET toks == TokensOf(arg)
        IN  /\ out.ok <=> (Len(toks) = 6 /\ \A i \in 1..6 : IsUnsignedInteger(toks[i]))
            /\ out.ok =>
                 /\ DOMAIN out.v = {StatNames[i] : i \in 1..6}
                 /\ \A i \in 1..6 : out.v[StatNames[i]] = UnsignedValue(toks[i])
                 /\ after.result = WithStat(start.result, arg.key, Some(out.v))
            /\ ~out.ok => after.result = start.result /\ after.warned
            /\ (Len(arg.toks) # 6 => ~out.ok)
            /\ \A k \in StatKeys :
                 \/ StatOf(after.result, k) = None
                 \/ StatOf(after.result, k) = StatOf(FullResult, k)
                 \/ out.ok /\ StatOf(after.result, k) = Some(out.v)

C7_Witness ==
    /\ pc = "stats_returned"
    /\ arg = [key |-> KeyFiles, toks |-> SubSeq(SevenTokens, 1, 5), sep |-> <<" "," "," "," "," ">>]
    /\ start.result = DefaultResult
    /\ ~out.ok
    /\ after.result.stats.files = None

\* ---- split_key_value ----
SplitLeads == {<<>>, <<" "," ">>, <<"\t">>}
SplitKeys == {<<"S","o","u","r","c","e">>, <<"S","t","a","r","t","e","d">>, <<"F","i","l","e","s">>, <<"S","p","e","e","d">>, <<"F","o","o"," ","b","a","r">>, <<>>}
SplitColons == {<<":">>, <<" ",":"," ">>, <<>>}
SplitValues == {<<>>, <<"C",":","\\","d","a","t","a">>, <<"1","2",":","0","0",":","0","0"," ","A","M">>, <<"*",".","*">>, <<"1","0","0"," ","B","y","t","e","s","/","s","e","c",".">>, <<"-","-","-">>}
SplitTrails == {<<>>, <<" ">>}

SplitInputs ==
    {[lead |-> l, key |-> k, colon |-> c, value |-> v, trail |-> t] :
        l \in SplitLeads, k \in SplitKeys, c \in SplitColons, v \in SplitValues,
        t \in SplitTrails}

SplitText(a) == a.lead \o a.key \o a.colon \o a.value \o a.trail

InitSplit ==
    /\ pc = "split_call"
    /\ arg \in SplitInputs
    /\ start \in StartStates
    /\ out = Idle
    /\ after = Idle
    /\ ParseIdle
    /\ WriteIdle

\* split_key_value on the trimmed line, and the turn of the loop on the line
CallSplitKeyValue ==
    /\ pc = "split_call"
    /\ pc' = "split_returned"
    /\ out' = split_key_value(trim(SplitText(arg)))
    /\ after' = ProcessLine(start.section, start.result, TextLine(SplitText(arg)))
    /\ UNCHANGED <<arg, start, parseVars, writeVars>>

NextSplit == CallSplitKeyValue

SpecSplit == InitSplit /\ [][NextSplit]_vars

\* C8: split_key_value cuts a line at its first colon only: the key is the
\* trimmed text before it, the value the trimmed rest with any later colons; a
\* content line without a colon gives no pair and, in section 2 or 4, changes
\* neither the record nor the section counter.
C8_SplitAtFirstColon ==
    pc = "split_returned" =>
        LET t == SplitText(arg)
        IN  /\ out = None <=> ~HasColon(t)
            /\ HasColon(t) =>
                 /\ out[1] = <<KeyOf(t), ValueOf(t)>>
                 /\ ~HasColon(out[1][1])
            /\ arg.colon # <<>> =>
                 out[1] = <<trim(arg.key), trim(arg.value \o arg.trail)>>
            /\ (IsContentLine(TextLine(t)) /\ ~HasColon(t)) =>
                 /\ after.result = start.result
                 /\ after.section = start.section
                 /\ ~after.warned

C8_Witness ==
    /\ pc = "split_returned"
    /\ arg = [lead |-> <<" "," ">>, key |-> <<"S","o","u","r","c","e">>, colon |-> <<" ",":"," ">>,
              value |-> <<"C",":","\\","d","a","t","a">>, trail |-> <<" ">>]
    /\ start = [section |-> HeaderSection, result |-> DefaultResult]
    /\ out = Some(<<<<"S","o","u","r","c","e">>, <<"C",":","\\","d","a","t","a">>>>)
    /\ after.result.source = Some(<<"C",":","\\","d","a","t","a">>)

(***************************************************************************)
(* serde_json::to_writer(&file, &self): the compact JSON document of the   *)
(* record, its fields in declaration order and None written as null.  A    *)
(* timestamp is written in RFC 3339 form; the local zone is taken to be    *)
(* UTC.                                                                    *)
(***************************************************************************)
Quote == <<"\"">>
LocalOffset == <<"+","0","0",":","0","0">>

RECURSIVE IntDigits(_)
IntDigits(n) == IF n < 10 THEN <<Digits[n + 1]>> ELSE IntDigits(n \div 10) \o <<Digits[(n % 10) + 1]>>

RECURSIVE ZeroPad(_, _)
ZeroPad(d, width) == IF Len(d) >= width THEN d ELSE ZeroPad(<<"0">> \o d, width)

JsonEscape(c) ==
    IF c = "\"" THEN <<"\\", "\"">>
    ELSE IF c = "\\" THEN <<"\\", "\\">>
    ELSE IF c = "\t" THEN <<"\\", "t">>
    ELSE <<c>>

RECURSIVE JsonEscaped(_)
JsonEscaped(s) == IF s = <<>> THEN <<>> ELSE JsonEscape(s[1]) \o JsonEscaped(Tail(s))

JsonString(s) == Quote \o JsonEscaped(s) \o Quote
JsonKey(name) == Quote \o name \o Quote \o <<":">>

JsonDateTime(dt) ==
    Quote \o ZeroPad(IntDigits(dt.year), 4) \o <<"-">> \o ZeroPad(IntDigits(dt.month), 2)
          \o <<"-">> \o ZeroPad(IntDigits(dt.day), 2) \o <<"T">> \o ZeroPad(IntDigits(dt.hour), 2)
          \o <<":">> \o ZeroPad(IntDigits(dt.minute), 2) \o <<":">> \o ZeroPad(IntDigits(dt.second), 2)
          \o LocalOffset \o Quote

JsonCopyStat(cs) ==
    <<"{">> \o JsonKey(<<"t","o","t","a","l">>) \o cs.total
         \o <<",">> \o JsonKey(<<"c","o","p","i","e","d">>) \o cs.copied
         \o <<",">> \o JsonKey(<<"s","k","i","p","p","e","d">>) \o cs.skipped
         \o <<",">> \o JsonKey(<<"m","i","s","m","a","t","c","h">>) \o cs.mismatch
         \o <<",">> \o JsonKey(<<"f","a","i","l","e","d">>) \o cs.failed
         \o <<",">> \o JsonKey(<<"e","x","t","r","a","s">>) \o cs.extras \o <<"}">>

JsonNull == <<"n","u","l","l">>
JsonOptString(o) == IF o = None THEN JsonNull ELSE JsonString(o[1])
JsonOptDateTime(o) == IF o = None THEN JsonNull ELSE JsonDateTime(o[1])
JsonOptNumber(o) == IF o = None THEN JsonNull ELSE o[1]
JsonOptCopyStat(o) == IF o = None THEN JsonNull ELSE JsonCopyStat(o[1])

JsonStats(st) ==
    <<"{">> \o JsonKey(<<"d","i","r","s">>) \o JsonOptCopyStat(st.dirs)
         \o <<",">> \o JsonKey(<<"f","i","l","e","s">>) \o JsonOptCopyStat(st.files)
         \o <<",">> \o JsonKey(<<"b","y","t","e","s">>) \o JsonOptCopyStat(st.bytes) \o <<"}">>

ToJson(res) ==
    <<"{">> \o JsonKey(<<"s","t","a","r","t","e","d">>) \o JsonOptDateTime(res.started)
         \o <<",">> \o JsonKey(<<"e","n","d","e","d">>) \o JsonOptDateTime(res.ended)
         \o <<",">> \o JsonKey(<<"s","o","u","r","c","e">>) \o JsonOptString(res.source)
         \o <<",">> \o JsonKey(<<"d","e","s","t","i","n","a","t","i","o","n">>) \o JsonOptString(res.destination)
         \o <<",">> \o JsonKey(<<"f","i","l","e","s">>) \o JsonOptString(res.files)
         \o <<",">> \o JsonKey(<<"o","p","t","i","o","n","s">>) \o JsonOptString(res.options)
         \o <<",">> \o JsonKey(<<"s","p","e","e","d">>) \o JsonOptNumber(res.speed)
         \o <<",">> \o JsonKey(<<"s","t","a","t","s">>) \o JsonStats(res.stats) \o <<"}">>

(***************************************************************************)
(* write_to_file.  The destination path is absent or a file with data; the *)
(* document is written through the unbuffered file one character at a      *)
(* time, and the open and every write may fail.                            *)
(***************************************************************************)
Absent == [exists |-> FALSE, data |-> <<>>]
Existing(d) == [exists |-> TRUE, data |-> d]

\* a mutant of open_output: overwrite opens with create(true) but without truncate(true)
open_output_no_truncate(ow, f) ==
    IF ow THEN Ok(Existing(f.data))
    ELSE IF f.exists THEN Err("AlreadyExists")
    ELSE Ok(Existing(<<>>))

\* File::options().write(true) with create(true).truncate(true) or create_new(true), opened
open_output(ow, f) ==
    IF ow THEN Ok(Existing(<<>>))
    ELSE IF f.exists THEN Err("AlreadyExists")
    ELSE Ok(Existing(<<>>))

\* one character written at offset pos
write_at(d, pos, c) == IF pos < Len(d) THEN [d EXCEPT ![pos + 1] = c] ELSE Append(d, c)

RECURSIVE ReadLines(_, _, _)
ReadLines(sec, res, items) ==
    IF items = <<>> THEN res
    ELSE LET nx == ProcessLine(sec, res, items[1])
         IN  ReadLines(nx.section, nx.result, Tail(items))

Divider == TextLine(<<"-","-","-","-","-">>)

SampleLogs ==
    { <<>>,
      <<Divider, TextLine(<<" "," "," ","R","O","B","O","C","O","P","Y">>), Divider,
        TextLine(<<" "," "," ","S","o","u","r","c","e"," ",":"," ","C",":","\\","d","a","t","a","\\">>), TextLine(<<" "," "," "," ","F","i","l","e","s"," ",":"," ","*",".","*">>)>>,
      <<Divider, Divider,
        TextLine(<<" "," ","S","t","a","r","t","e","d"," ",":"," ">> \o GoodStarted), TextLine(<<" "," "," "," "," ","D","e","s","t"," ",":"," ","E",":","\\","a"," ">> \o Quote \o <<"b">> \o Quote),
        Divider, Divider,
        TextLine(<<" "," "," ","S","p","e","e","d"," ",":"," ","1","2","3","4","5"," ","B","y","t","e","s","/","s","e","c",".">>), StatsLineFiles>> }

\* the records write_to_file is called on: what read_file returns for the sample logs
WriteRecords == {ReadLines(0, DefaultResult, log) : log \in SampleLogs}

OldFiles == {Absent, Existing(<<>>), Existing(ToJson(FullResult) \o <<" ","s","t","a","l","e">>)}

InitWrite ==
    /\ pc = "w_open"
    /\ result \in WriteRecords
    /\ overwrite \in BOOLEAN
    /\ file \in OldFiles
    /\ old = file
    /\ written = 0
    /\ section = 0
    /\ line = ReadError
    /\ warned = FALSE
    /\ dividers = 0
    /\ content = 0
    /\ lastRaw = NoHistory
    /\ lastOkRaw = NoHistory
    /\ failSeen = {}
    /\ repeated = {}
    /\ PureIdle

writeFrame ==
    <<section, result, line, warned, dividers, content, lastRaw, lastOkRaw, failSeen,
      repeated, overwrite, old, pureVars>>

\* options.open(output): decided by the options and by whether the path exists
OpenOutput ==
    /\ pc = "w_open"
    /\ LET r == open_output(overwrite, file)
       IN  IF r.ok THEN pc' = "w_writing" /\ file' = r.v
           ELSE pc' = "w_open_failed" /\ file' = file
    /\ UNCHANGED <<written, writeFrame>>

\* options.open(output) fails for a reason of the environment (permissions, a missing directory)
OpenOutputFails ==
    /\ pc = "w_open"
    /\ pc' = "w_open_failed"
    /\ UNCHANGED <<file, written, writeFrame>>

\* serde_json::to_writer writes the next character of the document
WriteChar ==
    /\ pc = "w_writing"
    /\ written < Len(ToJson(result))
    /\ file' = Existing(write_at(file.data, written, ToJson(result)[written + 1]))
    /\ written' = written + 1
    /\ UNCHANGED <<pc, writeFrame>>

\* a write fails (a full disk, an I/O error) and write_to_file returns the error
WriteFails ==
    /\ pc = "w_writing"
    /\ written < Len(ToJson(result))
    /\ pc' = "w_write_failed"
    /\ UNCHANGED <<file, written, writeFrame>>

\* the document is written: Ok(())
WriteDone ==
    /\ pc = "w_writing"
    /\ written = Len(ToJson(result))
    /\ pc' = "w_ok"
    /\ UNCHANGED <<file, written, writeFrame>>

NextWrite == OpenOutput \/ OpenOutputFails \/ WriteChar \/ WriteFails \/ WriteDone

SpecWrite == InitWrite /\ [][NextWrite]_vars

\* C4: without overwrite, on a path that exists, write_to_file returns an error
\* and the file keeps its content; with overwrite, on a path that exists, a call
\* that returns success leaves the file holding the serialized record and nothing
\* of the old content (the old content is dropped as the file is opened); on a
\* path that does not exist a call that returns success, in either mode, leaves a
\* file holding the serialized record.
C4_OverwriteModes ==
    /\ (~overwrite /\ old.exists) => (pc \in {"w_open", "w_open_failed"} /\ file = old)
    /\ (overwrite /\ pc \in {"w_writing", "w_write_failed", "w_ok"}) =>
          file = Existing(SubSeq(ToJson(result), 1, written))
    /\ pc = "w_ok" => file = Existing(ToJson(result))

C4_Witness ==
    /\ pc = "w_ok"
    /\ overwrite
    /\ old.exists
    /\ Len(old.data) > Len(ToJson(result))
    /\ result.source # None
    /\ file = Existing(ToJson(result))

\* C5: whenever write_to_file fails, at the open or at any write, the destination
\* holds the complete serialized record or exactly what it held (or did not hold)
\* before the call.
C5_AllOrNothing ==
    pc \in {"w_open_failed", "w_write_failed"} =>
        (file = old \/ file = Existing(ToJson(result)))

=============================================================================
